---- MODULE Spec2Model ----
(***************************************************************************)
(* Typed transaction envelope of ethers-core                               *)
(* (ethers-core/src/types/typed_transaction.rs): the RLP encodings of the  *)
(* EIP-2930 request, the signing hash of the envelope and the serde        *)
(* (textual) form of the envelope.                                         *)
(*                                                                         *)
(* Bytes are naturals in 0..255, byte strings are sequences of bytes.      *)
(* Option<T> is a sequence of length at most one: <<>> is None and <<v>>   *)
(* is Some(v).                                                             *)
(***************************************************************************)
EXTENDS Integers, Sequences, FiniteSets, TLC

VARIABLES env, op, chain_id, signature, encoded, digest, doc, parsed

vars == <<env, op, chain_id, signature, encoded, digest, doc, parsed>>

(***************************************************************************)
(* Bounds of the model.                                                    *)
(***************************************************************************)
\* addresses plus storage keys held by one access list
MaxAccessListSize == 3

(***************************************************************************)
(* Program constants.                                                      *)
(***************************************************************************)
AddressLen == 20
H256Len == 32
NUM_TX_FIELDS == 9
\* the length of the list without the slot of the access list
NUM_EIP2930_FIELDS_without_access_list == NUM_TX_FIELDS
NUM_EIP2930_FIELDS == NUM_TX_FIELDS + 1

(***************************************************************************)
(* Sequence helpers.                                                       *)
(***************************************************************************)
Some(v) == <<v>>
None == <<>>
Fill(n, b) == [i \in 1..n |-> b]

RECURSIVE Sum(_)
Sum(s) == IF s = <<>> THEN 0 ELSE Head(s) + Sum(Tail(s))

\* all sequences over S of length at most n
SeqUpTo(S, n) == UNION {[1..k -> S] : k \in 0..n}

(***************************************************************************)
(* rlp::RlpStream, the encoding sink used by rlp and rlp_signed.           *)
(***************************************************************************)
\* minimal big-endian bytes of an unsigned integer; zero has none
RECURSIVE to_big_endian(_)
to_big_endian(n) == IF n = 0 THEN <<>> ELSE to_big_endian(n \div 256) \o <<n % 256>>

\* BasicEncoder::encode_value: the RLP of one byte string
encode_value(b) ==
    IF Len(b) = 0 THEN <<128>>
    ELSE IF Len(b) = 1 /\ b[1] < 128 THEN b
    ELSE IF Len(b) <= 55 THEN <<128 + Len(b)>> \o b
    ELSE LET l == to_big_endian(Len(b)) IN <<183 + Len(l)>> \o l \o b

\* BasicEncoder::insert_list_payload: the list header written over the
\* placeholder byte at pos once the payload length len is known
insert_list_payload(buffer, len, pos) ==
    IF len <= 55 THEN [buffer EXCEPT ![pos] = 192 + len]
    ELSE LET l == to_big_endian(len)
         IN SubSeq(buffer, 1, pos - 1) \o <<247 + Len(l)>> \o l
            \o SubSeq(buffer, pos + 1, Len(buffer))

\* RlpStream::new
RlpStream_new == [buffer |-> <<>>, unfinished_lists |-> <<>>, finished_list |-> FALSE]

\* RlpStream::note_appended: counts the items of the innermost open list and
\* closes it (and counts it in its parent) when the declared length is reached
RECURSIVE note_appended(_, _)
note_appended(s, inserted_items) ==
    IF s.unfinished_lists = <<>> THEN s
    ELSE LET back == Len(s.unfinished_lists)
             x == [s.unfinished_lists[back] EXCEPT !.current = @ + inserted_items]
             should_finish == x.current = x.max
         IN IF should_finish
            THEN LET len == Len(s.buffer) - x.position
                     s1 == [buffer |-> insert_list_payload(s.buffer, len, x.position),
                            unfinished_lists |-> SubSeq(s.unfinished_lists, 1, back - 1),
                            finished_list |-> s.finished_list]
                 IN [note_appended(s1, 1) EXCEPT !.finished_list = TRUE]
            ELSE [s EXCEPT !.unfinished_lists[back] = x, !.finished_list = FALSE]

\* RlpStream::begin_list
begin_list(s, len) ==
    IF len = 0
    THEN [note_appended([s EXCEPT !.buffer = @ \o <<192>>, !.finished_list = FALSE], 1)
            EXCEPT !.finished_list = TRUE]
    ELSE [buffer |-> s.buffer \o <<0>>,
          unfinished_lists |-> Append(s.unfinished_lists,
                [position |-> Len(s.buffer) + 1, current |-> 0, max |-> len]),
          finished_list |-> FALSE]

\* RlpStream::append for a value whose rlp_append left the stream as appended
\* (the stream it started from had finished_list cleared)
append_done(appended) ==
    IF ~appended.finished_list THEN note_appended(appended, 1) ELSE appended

\* RlpStream::append of a byte string (H160, H256, &[u8], "")
append_bytes(s, b) ==
    append_done([s EXCEPT !.buffer = @ \o encode_value(b), !.finished_list = FALSE])

\* RlpStream::append of an unsigned integer (u8, u64, U64, U256)
append_uint(s, n) == append_bytes(s, to_big_endian(n))

\* RlpStream::is_finished
is_finished(s) == s.unfinished_lists = <<>>

\* RlpStream::out: the buffer, or a panic while a list is still open
out(s) == IF is_finished(s) THEN [ok |-> TRUE, bytes |-> s.buffer]
          ELSE [ok |-> FALSE, bytes |-> <<>>]

(***************************************************************************)
(* AccessList and AccessListItem: #[derive(RlpEncodable)].                 *)
(* The derive writes begin_list(number of fields) and then one append per  *)
(* field, append_list for a field of type Vec<_>.                          *)
(***************************************************************************)
\* RlpStream::append_list::<H256, _>
RECURSIVE append_each_H256(_, _)
append_each_H256(s, keys) ==
    IF keys = <<>> THEN s ELSE append_each_H256(append_bytes(s, Head(keys)), Tail(keys))

append_list_H256(s, keys) == append_each_H256(begin_list(s, Len(keys)), keys)

\* <AccessListItem as Encodable>::rlp_append
AccessListItem_rlp_append(s, item) ==
    append_list_H256(append_bytes(begin_list(s, 2), item.address), item.storage_keys)

append_AccessListItem(s, item) ==
    append_done(AccessListItem_rlp_append([s EXCEPT !.finished_list = FALSE], item))

\* RlpStream::append_list::<AccessListItem, _>
RECURSIVE append_each_AccessListItem(_, _)
append_each_AccessListItem(s, items) ==
    IF items = <<>> THEN s
    ELSE append_each_AccessListItem(append_AccessListItem(s, Head(items)), Tail(items))

append_list_AccessListItem(s, items) ==
    append_each_AccessListItem(begin_list(s, Len(items)), items)

\* <AccessList as Encodable>::rlp_append: a struct of one field, the Vec
AccessList_rlp_append(s, access_list) ==
    append_list_AccessListItem(begin_list(s, 1), access_list)

append_AccessList(s, access_list) ==
    append_done(AccessList_rlp_append([s EXCEPT !.finished_list = FALSE], access_list))

\* rlp::encode(&access_list)
AccessList_rlp(access_list) == out(append_AccessList(RlpStream_new, access_list))

(***************************************************************************)
(* A decoder of RLP, the inverse the encodings are read back with.         *)
(* An item is [k |-> "s", b |-> bytes, items |-> <<>>] (a byte string) or  *)
(* [k |-> "l", b |-> <<>>, items |-> items] (a list).                      *)
(***************************************************************************)
RlpString(b) == [k |-> "s", b |-> b, items |-> <<>>]
RlpList(items) == [k |-> "l", b |-> <<>>, items |-> items]
RlpUint(n) == RlpString(to_big_endian(n))
DecodeError == [ok |-> FALSE, items |-> <<>>]

RECURSIVE from_big_endian(_)
from_big_endian(b) ==
    IF b = <<>> THEN 0 ELSE from_big_endian(SubSeq(b, 1, Len(b) - 1)) * 256 + b[Len(b)]

\* header of the item that starts b: [ok, list, start, len], the payload
\* being b[start .. start + len - 1]
rlp_header(b) ==
    LET h == b[1]
        bad == [ok |-> FALSE, list |-> FALSE, start |-> 0, len |-> 0]
        long(base, isList) ==
            LET ll == h - base
                lb == SubSeq(b, 2, 1 + ll)
            IN IF Len(b) < 1 + ll \/ lb[1] = 0 \/ from_big_endian(lb) <= 55 THEN bad
               ELSE [ok |-> TRUE, list |-> isList, start |-> 2 + ll,
                     len |-> from_big_endian(lb)]
    IN IF h < 128 THEN [ok |-> TRUE, list |-> FALSE, start |-> 1, len |-> 1]
       ELSE IF h <= 183 THEN
            IF h = 129 /\ Len(b) >= 2 /\ b[2] < 128 THEN bad
            ELSE [ok |-> TRUE, list |-> FALSE, start |-> 2, len |-> h - 128]
       ELSE IF h <= 191 THEN long(183, FALSE)
       ELSE IF h <= 247 THEN [ok |-> TRUE, list |-> TRUE, start |-> 2, len |-> h - 192]
       ELSE long(247, TRUE)

\* the items encoded one after the other in b
RECURSIVE rlp_decode_items(_)
rlp_decode_items(b) ==
    IF b = <<>> THEN [ok |-> TRUE, items |-> <<>>]
    ELSE LET hd == rlp_header(b)
             stop == hd.start + hd.len - 1
         IN IF ~hd.ok \/ stop > Len(b) THEN DecodeError
            ELSE LET payload == SubSeq(b, hd.start, stop)
                     inner == IF hd.list THEN rlp_decode_items(payload)
                              ELSE [ok |-> TRUE, items |-> <<>>]
                     rest == rlp_decode_items(SubSeq(b, stop + 1, Len(b)))
                 IN IF ~inner.ok \/ ~rest.ok THEN DecodeError
                    ELSE [ok |-> TRUE,
                          items |-> <<IF hd.list THEN RlpList(inner.items)
                                      ELSE RlpString(payload)>> \o rest.items]

(***************************************************************************)
(* TransactionRequest, the legacy transaction (types/transaction.rs).      *)
(***************************************************************************)
\* rlp_opt: an absent field is written as the empty string
rlp_opt_uint(s, opt) == IF opt = None THEN append_bytes(s, <<>>) ELSE append_uint(s, opt[1])
rlp_opt_bytes(s, opt) == IF opt = None THEN append_bytes(s, <<>>) ELSE append_bytes(s, opt[1])

\* TransactionRequest::rlp_base: nonce, gas_price, gas_limit, to, value, data
rlp_base(s, tx) ==
    LET s1 == rlp_opt_uint(s, tx.nonce)
        s2 == rlp_opt_uint(s1, tx.gas_price)
        s3 == rlp_opt_uint(s2, tx.gas_limit)
        s4 == rlp_opt_bytes(s3, tx.to)
        s5 == rlp_opt_uint(s4, tx.value)
    IN rlp_opt_bytes(s5, tx.data)

\* TransactionRequest::rlp: the base fields, then chain_id, 0, 0
TransactionRequest_rlp(tx, c) ==
    LET s0 == rlp_base(begin_list(RlpStream_new, NUM_TX_FIELDS), tx)
    IN out(append_uint(append_uint(append_uint(s0, c), 0), 0))

(***************************************************************************)
(* Eip2930TransactionRequest.                                              *)
(***************************************************************************)
\* Eip2930TransactionRequest::new
Eip2930TransactionRequest_new(tx, access_list) == [tx |-> tx, access_list |-> access_list]

\* begin_list(NUM_EIP2930_FIELDS), rlp_base, append(&self.access_list): the
\* part rlp and rlp_signed share
Eip2930_stream(self) ==
    append_AccessList(rlp_base(begin_list(RlpStream_new, NUM_EIP2930_FIELDS), self.tx),
                      self.access_list)

\* Eip2930TransactionRequest::rlp
Eip2930_rlp(self, c) ==
    out(append_uint(append_uint(append_uint(Eip2930_stream(self), c), 0), 0))

\* rlp_signed with the signature appended as r, s, v
Eip2930_rlp_signed_rsv(self, sig) ==
    out(append_uint(append_uint(append_uint(Eip2930_stream(self), sig.r), sig.s), sig.v))

\* Eip2930TransactionRequest::rlp_signed
Eip2930_rlp_signed(self, sig) ==
    out(append_uint(append_uint(append_uint(Eip2930_stream(self), sig.v), sig.r), sig.s))

(***************************************************************************)
(* TransactionEnvelope.                                                    *)
(***************************************************************************)
Legacy(tx) == [variant |-> "Legacy", inner |-> tx]
Eip2930(tx2) == [variant |-> "Eip2930", inner |-> tx2]

\* utils::keccak256, kept symbolic: the digest of a preimage
keccak256(bytes) == [keccak256_of |-> bytes]

\* sighash with the legacy arm hashing the bare legacy encoding
sighash_preimage_no_legacy_prefix(self, c) ==
    IF self.variant = "Legacy"
    THEN TransactionRequest_rlp(self.inner, c).bytes
    ELSE <<1>> \o Eip2930_rlp(self.inner, c).bytes

\* sighash with the byte of the legacy arm copied into the Eip2930 arm
sighash_preimage_same_prefix(self, c) ==
    IF self.variant = "Legacy"
    THEN <<0>> \o TransactionRequest_rlp(self.inner, c).bytes
    ELSE <<0>> \o Eip2930_rlp(self.inner, c).bytes

\* the bytes sighash hands to keccak256
sighash_preimage(self, c) ==
    IF self.variant = "Legacy"
    THEN <<0>> \o TransactionRequest_rlp(self.inner, c).bytes
    ELSE <<1>> \o Eip2930_rlp(self.inner, c).bytes

\* TransactionEnvelope::sighash
sighash(self, c) == keccak256(sighash_preimage(self, c))

(***************************************************************************)
(* Textual (serde_json) form.  A JSON string is a sequence of characters,  *)
(* a JSON array a sequence, a JSON object a function from its keys.        *)
(***************************************************************************)
HexChars == <<"0", "1", "2", "3", "4", "5", "6", "7", "8", "9", "a", "b", "c", "d", "e", "f">>
HexPrefix == <<"0", "x">>
is_hex(c) == \E i \in 1..16 : HexChars[i] = c
hex_value(c) == (CHOOSE i \in 1..16 : HexChars[i] = c) - 1
has_hex_prefix(str) == Len(str) >= 2 /\ SubSeq(str, 1, 2) = HexPrefix
DeOk(v) == [ok |-> TRUE, value |-> v]
DeErr(e) == [ok |-> FALSE, error |-> e]

RECURSIVE hex_digits(_)
hex_digits(n) == IF n = 0 THEN <<>> ELSE hex_digits(n \div 16) \o <<HexChars[(n % 16) + 1]>>

\* Serialize of U256: "0x" and the hex digits without leading zeros
uint_serialize(n) == HexPrefix \o (IF n = 0 THEN <<"0">> ELSE hex_digits(n))

RECURSIVE hex_number(_)
hex_number(str) ==
    IF str = <<>> THEN 0
    ELSE hex_number(SubSeq(str, 1, Len(str) - 1)) * 16 + hex_value(str[Len(str)])

\* Deserialize of U256
uint_deserialize(str) ==
    IF has_hex_prefix(str) /\ Len(str) >= 3 /\ \A i \in 3..Len(str) : is_hex(str[i])
    THEN DeOk(hex_number(SubSeq(str, 3, Len(str))))
    ELSE DeErr("invalid value")

RECURSIVE hex_bytes(_)
hex_bytes(b) ==
    IF b = <<>> THEN <<>>
    ELSE <<HexChars[(Head(b) \div 16) + 1], HexChars[(Head(b) % 16) + 1]>> \o hex_bytes(Tail(b))

\* Serialize of Address, H256 and Bytes: "0x" and two hex digits a byte
bytes_serialize(b) == HexPrefix \o hex_bytes(b)

\* Deserialize of Bytes
bytes_deserialize(str) ==
    IF has_hex_prefix(str) /\ Len(str) % 2 = 0 /\ \A i \in 3..Len(str) : is_hex(str[i])
    THEN DeOk([i \in 1..((Len(str) - 2) \div 2) |->
                  hex_value(str[2 * i + 1]) * 16 + hex_value(str[2 * i + 2])])
    ELSE DeErr("invalid value")

\* Deserialize of a fixed-size hash (Address: 20 bytes, H256: 32 bytes)
hash_deserialize(str, n) ==
    IF Len(str) = 2 + 2 * n THEN bytes_deserialize(str) ELSE DeErr("invalid length")

Restrict(f, S) == [k \in S |-> f[k]]

\* TransactionRequest: every field optional, an absent one left out
TxFields == {"nonce", "gas_price", "gas_limit", "to", "value", "data"}

TransactionRequest_serialize(tx) ==
    [k \in {f \in TxFields : tx[f] # None} |->
        IF k \in {"to", "data"} THEN bytes_serialize(tx[k][1]) ELSE uint_serialize(tx[k][1])]

\* keys that are no field of the request are ignored
TransactionRequest_deserialize(d) ==
    LET field(k) == IF k \notin DOMAIN d THEN DeOk(None)
                    ELSE LET r == IF k = "to" THEN hash_deserialize(d[k], AddressLen)
                                  ELSE IF k = "data" THEN bytes_deserialize(d[k])
                                  ELSE uint_deserialize(d[k])
                         IN IF r.ok THEN DeOk(Some(r.value)) ELSE r
    IN IF \A k \in TxFields : field(k).ok
       THEN DeOk([k \in TxFields |-> field(k).value])
       ELSE DeErr("invalid value")

\* AccessListItem: #[serde(rename_all = "camelCase")]
AccessListItem_serialize(item) ==
    [address |-> bytes_serialize(item.address),
     storageKeys |-> [j \in 1..Len(item.storage_keys) |-> bytes_serialize(item.storage_keys[j])]]

AccessListItem_deserialize(j) ==
    IF DOMAIN j # {"address", "storageKeys"} THEN DeErr("missing field")
    ELSE LET a == hash_deserialize(j.address, AddressLen)
             ks == [i \in 1..Len(j.storageKeys) |-> hash_deserialize(j.storageKeys[i], H256Len)]
         IN IF a.ok /\ \A i \in 1..Len(ks) : ks[i].ok
            THEN DeOk([address |-> a.value,
                       storage_keys |-> [i \in 1..Len(ks) |-> ks[i].value]])
            ELSE DeErr("invalid value")

\* AccessList(Vec<AccessListItem>): a newtype struct is written as its field
AccessList_serialize(access_list) ==
    [i \in 1..Len(access_list) |-> AccessListItem_serialize(access_list[i])]

AccessList_deserialize(j) ==
    LET items == [i \in 1..Len(j) |-> AccessListItem_deserialize(j[i])]
    IN IF \A i \in 1..Len(items) : items[i].ok
       THEN DeOk([i \in 1..Len(items) |-> items[i].value])
       ELSE DeErr("invalid value")

\* Eip2930TransactionRequest without #[serde(flatten)]: tx is a nested object
Eip2930_serialize_nested(self) ==
    ("tx" :> TransactionRequest_serialize(self.tx))
    @@ ("access_list" :> AccessList_serialize(self.access_list))

\* Eip2930TransactionRequest: #[serde(flatten)] tx, then access_list
Eip2930_serialize(self) ==
    TransactionRequest_serialize(self.tx) @@ ("access_list" :> AccessList_serialize(self.access_list))

Eip2930_deserialize(d) ==
    IF "access_list" \notin DOMAIN d THEN DeErr("missing field access_list")
    ELSE LET al == AccessList_deserialize(d["access_list"])
             tx == TransactionRequest_deserialize(Restrict(d, DOMAIN d \ {"access_list"}))
         IN IF al.ok /\ tx.ok
            THEN DeOk(Eip2930TransactionRequest_new(tx.value, al.value))
            ELSE DeErr("invalid value")

\* both variants renamed "0x00"
TypeTag_same(variant) == <<"0", "x", "0", "0">>

\* #[serde(rename = "0x00")] and #[serde(rename = "0x01")]
TypeTag(variant) ==
    IF variant = "Legacy" THEN <<"0", "x", "0", "0">> ELSE <<"0", "x", "0", "1">>

\* #[serde(tag = "type", content = "content")]: the inner shape nested
Envelope_serialize_adjacent(self) ==
    ("type" :> TypeTag(self.variant))
    @@ ("content" :> (IF self.variant = "Legacy" THEN TransactionRequest_serialize(self.inner)
                      ELSE Eip2930_serialize(self.inner)))

\* TransactionEnvelope: #[serde(tag = "type")], Serialize
Envelope_serialize(self) ==
    ("type" :> TypeTag(self.variant))
    @@ (IF self.variant = "Legacy" THEN TransactionRequest_serialize(self.inner)
        ELSE Eip2930_serialize(self.inner))

\* #[serde(untagged)]: the first variant whose shape parses, type not read
Envelope_deserialize_untagged(d) ==
    LET tx2 == Eip2930_deserialize(d)
        tx == TransactionRequest_deserialize(d)
    IN IF tx2.ok THEN DeOk(Eip2930(tx2.value))
       ELSE IF tx.ok THEN DeOk(Legacy(tx.value))
       ELSE DeErr("data did not match any variant")

\* TransactionEnvelope: #[serde(tag = "type")], Deserialize
Envelope_deserialize(d) ==
    IF "type" \notin DOMAIN d THEN DeErr("missing field type")
    ELSE LET content == Restrict(d, DOMAIN d \ {"type"})
         IN IF d["type"] = TypeTag("Legacy")
            THEN LET tx == TransactionRequest_deserialize(content)
                 IN IF tx.ok THEN DeOk(Legacy(tx.value)) ELSE tx
            ELSE IF d["type"] = TypeTag("Eip2930")
            THEN LET tx2 == Eip2930_deserialize(content)
                 IN IF tx2.ok THEN DeOk(Eip2930(tx2.value)) ELSE tx2
            ELSE DeErr("unknown variant")

(***************************************************************************)
(* Inputs.                                                                 *)
(***************************************************************************)
Addresses == {Fill(AddressLen, 0), Fill(AddressLen, 17)}
StorageKeys == {Fill(H256Len, 0), Fill(H256Len, 255)}

\* the value a field of a request holds when it is present
FieldValue ==
    [nonce |-> 0, gas_price |-> 128, gas_limit |-> 21000, to |-> Fill(AddressLen, 17),
     value |-> 100, data |-> <<1, 128>>]

\* every request: each field absent or present
TxRequests ==
    {[k \in TxFields |-> IF k \in present THEN Some(FieldValue[k]) ELSE None] :
        present \in SUBSET TxFields}

\* TransactionRequest::new(), and the request with every field set
SampleRequests ==
    {[k \in TxFields |-> None], [k \in TxFields |-> Some(FieldValue[k])]}

ItemsUpTo(m) ==
    {[address |-> a, storage_keys |-> ks] : a \in Addresses, ks \in SeqUpTo(StorageKeys, m)}

AccessListSize(al) == Len(al) + Sum([i \in 1..Len(al) |-> Len(al[i].storage_keys)])

\* every access list of at most MaxAccessListSize addresses and keys
AccessLists ==
    UNION {{al \in [1..k -> ItemsUpTo(MaxAccessListSize - k)] :
                AccessListSize(al) <= MaxAccessListSize} : k \in 0..MaxAccessListSize}

\* the empty access list and the one of tests::serde_eip2930_tx
SampleAccessLists ==
    {<<>>, <<[address |-> Fill(AddressLen, 0), storage_keys |-> <<Fill(H256Len, 0)>>]>>}

\* every request as a legacy envelope and with the sample access lists, and
\* the sample requests with every access list
Envelopes ==
    {Legacy(tx) : tx \in TxRequests}
    \cup {Eip2930(Eip2930TransactionRequest_new(tx, al)) :
            tx \in TxRequests, al \in SampleAccessLists}
    \cup {Eip2930(Eip2930TransactionRequest_new(tx, al)) :
            tx \in SampleRequests, al \in AccessLists}

ChainIds == {0, 1, 300}
Signatures == {[v |-> 37, r |-> 70000, s |-> 129], [v |-> 0, r |-> 5, s |-> 0]}
TypeValues == {TypeTag("Legacy"), TypeTag("Eip2930"), <<"0", "x", "0", "2">>, <<"0", "x", "0">>}

NoSignature == [v |-> 0, r |-> 0, s |-> 0]
NoBytes == [ok |-> TRUE, bytes |-> <<>>]
NoDigest == keccak256(<<>>)
NoDocument == <<>>
NotParsed == DeErr("not parsed")

(***************************************************************************)
(* The state machine: an envelope is constructed, and any of its           *)
(* operations is called on it.                                             *)
(***************************************************************************)
Init ==
    /\ env \in Envelopes
    /\ op = "new"
    /\ chain_id = 0
    /\ signature = NoSignature
    /\ encoded = NoBytes
    /\ digest = NoDigest
    /\ doc = NoDocument
    /\ parsed = NotParsed

\* TransactionEnvelope::sighash(chain_id)
Sighash ==
    \E c \in ChainIds :
        /\ op' = "sighash"
        /\ chain_id' = c
        /\ digest' = sighash(env, c)
        /\ signature' = NoSignature /\ encoded' = NoBytes
        /\ doc' = NoDocument /\ parsed' = NotParsed
        /\ UNCHANGED env

\* Eip2930TransactionRequest::rlp(chain_id)
Rlp ==
    \E c \in ChainIds :
        /\ env.variant = "Eip2930"
        /\ op' = "rlp"
        /\ chain_id' = c
        /\ encoded' = Eip2930_rlp(env.inner, c)
        /\ signature' = NoSignature /\ digest' = NoDigest
        /\ doc' = NoDocument /\ parsed' = NotParsed
        /\ UNCHANGED env

\* Eip2930TransactionRequest::rlp_signed(signature)
RlpSigned ==
    \E sig \in Signatures :
        /\ env.variant = "Eip2930"
        /\ op' = "rlp_signed"
        /\ signature' = sig
        /\ encoded' = Eip2930_rlp_signed(env.inner, sig)
        /\ chain_id' = 0 /\ digest' = NoDigest
        /\ doc' = NoDocument /\ parsed' = NotParsed
        /\ UNCHANGED env

\* rlp::encode(&access_list)
RlpAccessList ==
    /\ env.variant = "Eip2930"
    /\ op' = "rlp_access_list"
    /\ encoded' = AccessList_rlp(env.inner.access_list)
    /\ chain_id' = 0 /\ signature' = NoSignature /\ digest' = NoDigest
    /\ doc' = NoDocument /\ parsed' = NotParsed
    /\ UNCHANGED env

\* serde_json::to_string(&envelope)
Serialize ==
    /\ op' = "serialize"
    /\ doc' = Envelope_serialize(env)
    /\ chain_id' = 0 /\ signature' = NoSignature /\ encoded' = NoBytes
    /\ digest' = NoDigest /\ parsed' = NotParsed
    /\ UNCHANGED env

\* the caller hands over another document than the one that was written:
\* its type set or dropped, its access_list dropped or added
EditDocument ==
    /\ op \in {"serialize", "edit"}
    /\ op' = "edit"
    /\ \/ \E t \in TypeValues : doc' = ("type" :> t) @@ Restrict(doc, DOMAIN doc \ {"type"})
       \/ /\ "type" \in DOMAIN doc
          /\ doc' = Restrict(doc, DOMAIN doc \ {"type"})
       \/ /\ "access_list" \in DOMAIN doc
          /\ doc' = Restrict(doc, DOMAIN doc \ {"access_list"})
       \/ /\ "access_list" \notin DOMAIN doc
          /\ doc' = doc @@ ("access_list" :> <<>>)
    /\ doc' # doc
    /\ UNCHANGED <<env, chain_id, signature, encoded, digest, parsed>>

\* serde_json::from_str::<TransactionEnvelope>(&doc)
DeserializeEnvelope ==
    /\ op \in {"serialize", "edit"}
    /\ op' = "de_envelope"
    /\ parsed' = Envelope_deserialize(doc)
    /\ UNCHANGED <<env, chain_id, signature, encoded, digest, doc>>

\* serde_json::from_str::<TransactionRequest>(&doc)
DeserializeTransactionRequest ==
    /\ op \in {"serialize", "edit"}
    /\ op' = "de_legacy"
    /\ parsed' = TransactionRequest_deserialize(doc)
    /\ UNCHANGED <<env, chain_id, signature, encoded, digest, doc>>

\* serde_json::from_str::<Eip2930TransactionRequest>(&doc)
DeserializeEip2930 ==
    /\ op \in {"serialize", "edit"}
    /\ op' = "de_eip2930"
    /\ parsed' = Eip2930_deserialize(doc)
    /\ UNCHANGED <<env, chain_id, signature, encoded, digest, doc>>

Next ==
    \/ Sighash
    \/ Rlp
    \/ RlpSigned
    \/ RlpAccessList
    \/ Serialize
    \/ EditDocument
    \/ DeserializeEnvelope
    \/ DeserializeTransactionRequest
    \/ DeserializeEip2930

Spec == Init /\ [][Next]_vars

(***************************************************************************)
(* Properties.                                                             *)
(***************************************************************************)
InnerTx == IF env.variant = "Legacy" THEN env.inner ELSE env.inner.tx
IsPristine == doc = Envelope_serialize(env)
HasType(t) == "type" \in DOMAIN doc /\ doc["type"] = t
DecodedList(bytes) == rlp_decode_items(bytes).items[1].items
IsOneList(bytes) ==
    LET d == rlp_decode_items(bytes)
    IN d.ok /\ Len(d.items) = 1 /\ d.items[1].k = "l"

\* an absent field of the request, as an RLP item
OptUint(opt) == IF opt = None THEN RlpString(<<>>) ELSE RlpUint(opt[1])
OptBytes(opt) == IF opt = None THEN RlpString(<<>>) ELSE RlpString(opt[1])

\* the six body fields of a request as RLP items
BodyItems(tx) ==
    <<OptUint(tx.nonce), OptUint(tx.gas_price), OptUint(tx.gas_limit), OptBytes(tx.to),
      OptUint(tx.value), OptBytes(tx.data)>>

\* the canonical RLP item of an access list: the list of [address, [keys]]
AccessList_canonical(al) ==
    RlpList([i \in 1..Len(al) |->
        RlpList(<<RlpString(al[i].address),
                  RlpList([j \in 1..Len(al[i].storage_keys) |->
                              RlpString(al[i].storage_keys[j])])>>)])

\* the envelopes of the other variant around the same request
Counterparts(e) ==
    IF e.variant = "Legacy"
    THEN {Eip2930(Eip2930TransactionRequest_new(e.inner, al)) : al \in SampleAccessLists}
    ELSE {Legacy(e.inner.tx)}

\* C1: sighash(e, c) is keccak256 of one byte, 0x00 for Legacy and 0x01 for
\* Eip2930, followed by the inner shape's rlp(c), and of nothing else.
C1_SighashPreimage ==
    op = "sighash" =>
        LET body == IF env.variant = "Legacy"
                    THEN TransactionRequest_rlp(env.inner, chain_id).bytes
                    ELSE Eip2930_rlp(env.inner, chain_id).bytes
            p == IF env.variant = "Legacy" THEN 0 ELSE 1
        IN /\ digest = keccak256(<<p>> \o body)
           /\ Len(digest.keccak256_of) = 1 + Len(body)

C1_Witness ==
    /\ op = "sighash" /\ chain_id = 300
    /\ env.variant = "Eip2930" /\ Len(env.inner.access_list) = 2
    /\ digest.keccak256_of[1] = 1

\* C2: deserializing, as a TransactionEnvelope, the text serialized from an
\* envelope yields that envelope: same variant, same fields, same access list
\* in the same order.
C2_TextRoundTrip ==
    (op = "de_envelope" /\ IsPristine) => parsed = DeOk(env)

C2_Witness ==
    /\ op = "de_envelope" /\ IsPristine /\ parsed.ok
    /\ env.variant = "Eip2930" /\ Len(env.inner.access_list) = 2
    /\ env.inner.access_list[1] # env.inner.access_list[2]
    /\ parsed.value.inner.access_list = env.inner.access_list

\* C3: the text of an envelope also parses as the raw inner shape, and
\* wrapping that parse in the matching variant yields the envelope.
C3_DualParse ==
    /\ (op = "de_legacy" /\ IsPristine /\ env.variant = "Legacy")
            => (parsed.ok /\ Legacy(parsed.value) = env)
    /\ (op = "de_eip2930" /\ IsPristine /\ env.variant = "Eip2930")
            => (parsed.ok /\ Eip2930(parsed.value) = env)

C3_Witness ==
    /\ op = "de_eip2930" /\ IsPristine /\ parsed.ok
    /\ env.variant = "Eip2930" /\ env.inner.access_list # <<>>
    /\ env.inner.tx.to # None /\ parsed.value.tx.to = env.inner.tx.to

\* C4: rlp(c) is one RLP list of nonce, gas_price, gas_limit, to, value, data,
\* access_list, c, 0, 0, and decoding it gives back these field values.
C4_RlpFieldList ==
    op = "rlp" =>
        /\ encoded.ok
        /\ rlp_decode_items(encoded.bytes) =
             [ok |-> TRUE,
              items |-> <<RlpList(BodyItems(env.inner.tx)
                                  \o <<AccessList_canonical(env.inner.access_list),
                                       RlpUint(chain_id), RlpUint(0), RlpUint(0)>>)>>]

\* C5: the last three items of rlp_signed(sig) are v, r, s in that order, it
\* has as many items as rlp(c), and the items before the last three are the
\* same in both.
C5_SignedTail ==
    op = "rlp_signed" =>
        /\ encoded.ok /\ IsOneList(encoded.bytes)
        /\ LET s == DecodedList(encoded.bytes)
               n == Len(s)
           IN /\ n = 10
              /\ s[n - 2] = RlpUint(signature.v)
              /\ s[n - 1] = RlpUint(signature.r)
              /\ s[n] = RlpUint(signature.s)
              /\ \A c \in ChainIds :
                    LET u == DecodedList(Eip2930_rlp(env.inner, c).bytes)
                    IN /\ Len(u) = n
                       /\ SubSeq(u, 1, n - 3) = SubSeq(s, 1, n - 3)
              /\ SubSeq(s, 1, 6) = BodyItems(env.inner.tx)

C5_Witness ==
    /\ op = "rlp_signed" /\ signature.v = 37 /\ encoded.ok
    /\ env.inner.access_list # <<>> /\ env.inner.tx.value # None
    /\ DecodedList(encoded.bytes)[8] = RlpUint(37)

\* C6: the text of an envelope is one flat object: type is "0x00" exactly for
\* Legacy and "0x01" exactly for Eip2930, the fields of the request sit beside
\* type, and access_list is there exactly in the 0x01 form.
C6_FlatTypedObject ==
    op = "serialize" =>
        /\ "type" \in DOMAIN doc
        /\ (doc["type"] = <<"0", "x", "0", "0">>) <=> (env.variant = "Legacy")
        /\ (doc["type"] = <<"0", "x", "0", "1">>) <=> (env.variant = "Eip2930")
        /\ DOMAIN doc \ {"type", "access_list"} = {k \in TxFields : InnerTx[k] # None}
        /\ \A k \in TxFields :
              InnerTx[k] # None => doc[k] = TransactionRequest_serialize(InnerTx)[k]
        /\ ("access_list" \in DOMAIN doc) <=> (env.variant = "Eip2930")
        /\ env.variant = "Eip2930"
              => doc["access_list"] = AccessList_serialize(env.inner.access_list)

C6_Witness ==
    /\ op = "serialize" /\ env.variant = "Eip2930"
    /\ env.inner.tx.value # None /\ env.inner.access_list # <<>>
    /\ DOMAIN doc = {"type", "value", "access_list"}

\* C7, as claimed: the type field alone decides the result: "0x00" yields a
\* Legacy envelope, "0x01" an Eip2930 envelope, anything else or no type an
\* error.
C7_TypeAloneDecides ==
    op = "de_envelope" =>
        /\ HasType(TypeTag("Legacy")) => (parsed.ok /\ parsed.value.variant = "Legacy")
        /\ HasType(TypeTag("Eip2930")) => (parsed.ok /\ parsed.value.variant = "Eip2930")
        /\ (~HasType(TypeTag("Legacy")) /\ ~HasType(TypeTag("Eip2930"))) => ~parsed.ok

\* C7, amended: type picks the variant the rest of the document is parsed as:
\* with "0x00" the result is a Legacy envelope when the document parses as a
\* TransactionRequest, with "0x01" an Eip2930 envelope when it parses as an
\* Eip2930TransactionRequest (an error when access_list is missing), and an
\* error otherwise; anything else or no type is an error.
C7_TypeDispatch ==
    op = "de_envelope" =>
        /\ HasType(TypeTag("Legacy")) =>
              /\ parsed.ok <=> TransactionRequest_deserialize(doc).ok
              /\ parsed.ok => parsed.value.variant = "Legacy"
        /\ HasType(TypeTag("Eip2930")) =>
              /\ parsed.ok <=> Eip2930_deserialize(doc).ok
              /\ parsed.ok => parsed.value.variant = "Eip2930"
              /\ "access_list" \notin DOMAIN doc => ~parsed.ok
        /\ (~HasType(TypeTag("Legacy")) /\ ~HasType(TypeTag("Eip2930"))) => ~parsed.ok

C7_Witness ==
    /\ op = "de_envelope" /\ HasType(<<"0", "x", "0", "2">>)
    /\ "access_list" \in DOMAIN doc /\ ~parsed.ok

\* C8: the RLP of an access list is the list of its items in order, each the
\* list [address, list of keys]; an empty key list and the empty access list
\* are the single byte 0xc0.
C8_AccessListCanonical ==
    op = "rlp_access_list" =>
        /\ encoded.ok
        /\ rlp_decode_items(encoded.bytes) =
             [ok |-> TRUE, items |-> <<AccessList_canonical(env.inner.access_list)>>]
        /\ env.inner.access_list = <<>> => encoded.bytes = <<192>>

\* C9: the preimage of a Legacy envelope and that of an Eip2930 envelope
\* differ in their first byte, 0x00 against 0x01, so the digests differ.
C9_DomainSeparation ==
    op = "sighash" =>
        \A e2 \in Counterparts(env), c2 \in ChainIds :
            LET p1 == digest.keccak256_of
                p2 == sighash_preimage(e2, c2)
            IN /\ {p1[1], p2[1]} = {0, 1}
               /\ p1[1] = 0 <=> env.variant = "Legacy"
               /\ digest # sighash(e2, c2)

C9_Witness ==
    /\ op = "sighash" /\ env.variant = "Legacy" /\ chain_id = 1
    /\ digest.keccak256_of[1] = 0
    /\ \E e2 \in Counterparts(env) : sighash_preimage(e2, 1)[1] = 1

\* C10: in rlp and in rlp_signed the items appended after begin_list are as
\* many as the declared NUM_EIP2930_FIELDS = NUM_TX_FIELDS + 1 = 10: the
\* output is one complete list, nothing outside it, no list left open.
C10_DeclaredLengthMatches ==
    op \in {"rlp", "rlp_signed"} =>
        /\ encoded.ok
        /\ IsOneList(encoded.bytes)
        /\ Len(DecodedList(encoded.bytes)) = Len(BodyItems(env.inner.tx)) + 1 + 3
        /\ Len(DecodedList(encoded.bytes)) = NUM_EIP2930_FIELDS
        /\ NUM_EIP2930_FIELDS = NUM_TX_FIELDS + 1
        /\ NUM_EIP2930_FIELDS = 10

C10_Witness ==
    /\ op = "rlp_signed" /\ encoded.ok /\ IsOneList(encoded.bytes)
    /\ Len(env.inner.access_list) = 3
    /\ Len(DecodedList(encoded.bytes)) = 10

====
